---- MODULE Spec2Model ----
(***************************************************************************)
(* Model of the review-analytics pipeline scripts:                         *)
(*   scripts/run_task2_analysis.py  the Task 2 orchestrator (Spec)         *)
(*   scripts/clean_reviews.py       the Task 1 cleaning steps              *)
(*   scripts/scrape_reviews.py      scrape_app_reviews (SpecScrape)        *)
(*   scripts/topic_modeling.py      preprocess_text (SpecTokens)           *)
(***************************************************************************)
EXTENDS Integers, Sequences, FiniteSets, TLC

VARIABLES
    \* ---- run_task2_analysis.py ----
    exists,       \* os.path.exists('data/bank_reviews_clean.csv')
    raises,       \* the modules whose main() raises an Exception in this run
    pc,           \* position of run_task2_analysis.main
    next_module,  \* index in ModuleOrder of the run_module call main is at
    running,      \* the module whose main() is executing, or "none"
    started,      \* the modules whose main() was entered, in order
    returned,     \* the modules whose run_module call has returned
    prerequisites,\* what check_prerequisites returned: "unset", "True", "False"
    results,      \* main's results dict: key -> BOOLEAN
    printed,      \* the messages of interest printed so far
    exit_status   \* -1 while the process runs, then its exit status

orchVars == <<exists, raises, pc, next_module, running, started, returned,
              prerequisites, results, printed, exit_status>>

    \* ---- clean_reviews.clean_text.clean_review_text, applied to one text ----
VARIABLES
    text,         \* the argument: a cell holding a string, or NaN
    tpc,          \* "start", "once" (applied to text), "twice" (applied to its result)
    cleaned,      \* clean_review_text(text)
    recleaned     \* clean_review_text(cleaned)

textVars == <<text, tpc, cleaned, recleaned>>

    \* ---- clean_reviews.py, on a table ----
VARIABLES
    raw,                \* the table load_data returned (SpecClean), or the argument (SpecFn)
    df,                 \* the table the steps have produced so far
    cpc,                \* the step main is at (SpecClean), or the function called (SpecFn)
    duplicates_removed, \* returned by remove_duplicates
    missing_report,     \* returned by handle_missing_values: column -> count of nulls
    empty_removed,      \* returned by clean_text
    is_valid,           \* returned by validate_data: "unset", "True", "False"
    saved               \* the table df.to_csv(OUTPUT_FILE) wrote, or NoTable

cleanVars == <<raw, df, cpc, duplicates_removed, missing_report, empty_removed,
               is_valid, saved>>

    \* ---- scrape_reviews.scrape_app_reviews ----
VARIABLES
    app,                \* short_name of the app being scraped
    all_reviews,        \* the reviews collected so far
    continuation_token, \* the token the last returning request gave
    spc,                \* position of scrape_app_reviews
    requests,           \* the calls of reviews(): token and count passed
    responses,          \* what each call did: raised, or result and token
    events,             \* the requests and sleeps, in order
    files,              \* short_name -> table written to data/raw, or EmptyFrame
    returned_df,        \* the table scrape_app_reviews returned
    scrape_error        \* the outer except clause ran

scrapeVars == <<app, all_reviews, continuation_token, spc, requests, responses,
                events, files, returned_df, scrape_error>>

    \* ---- topic_modeling.preprocess_text.clean_text, applied to one review ----
VARIABLES
    review,       \* the argument: a cell holding a string, or NaN
    lemmatizer,   \* which lemmatizer this run uses
    kpc,          \* "start", then "done"
    tokens        \* the list clean_text returned

tokenVars == <<review, lemmatizer, kpc, tokens>>

vars == <<orchVars, textVars, cleanVars, scrapeVars, tokenVars>>

(***************************************************************************)
(* Bounds                                                                  *)
(***************************************************************************)

\* Longest text given to clean_review_text on its own.
MaxLen == 5

\* Most rows of a table.
MaxRows == 2

\* Most pages of reviews an app has.
MaxRequests == 3

\* Most pieces (words, addresses) of a review given to preprocess_text.
MaxWords == 2

otherThanOrch == <<textVars, cleanVars, scrapeVars, tokenVars>>

otherThanText == <<orchVars, cleanVars, scrapeVars, tokenVars>>

otherThanClean == <<orchVars, textVars, scrapeVars, tokenVars>>

otherThanScrape == <<orchVars, textVars, cleanVars, tokenVars>>

otherThanTokens == <<orchVars, textVars, cleanVars, scrapeVars>>

(***************************************************************************)
(* run_task2_analysis.py                                                   *)
(***************************************************************************)

\* The order with the visualizations made before the topics they draw.
ModuleOrderSwapped ==
    <<"sentiment_analysis", "visualizations", "topic_modeling", "generate_report">>

\* The run_module calls of main, in program order.
ModuleOrder ==
    <<"sentiment_analysis", "topic_modeling", "visualizations", "generate_report">>

Modules == {ModuleOrder[i] : i \in DOMAIN ModuleOrder}

\* The key of main's results dict each call is stored under.
ResultKey ==
    [sentiment_analysis |-> "sentiment", topic_modeling |-> "topics",
     visualizations |-> "visualizations", generate_report |-> "report"]

\* Only the first call tested.
MustSucceedFirstOnly == {"sentiment_analysis"}

\* The modules main tests right after the call: "if not results[...]: sys.exit(1)".
MustSucceed == {"sentiment_analysis", "topic_modeling"}

\* check_prerequisites that reports success whatever it found.
check_prerequisites_ignoring(file_exists) == TRUE

\* required_files of check_prerequisites holds the one path; missing_files is
\* empty exactly when it exists.
check_prerequisites(file_exists) == file_exists

\* run_module: True when the module's main() returns, False when it raises.
run_module(module_name, raising) == module_name \notin raising

\* The dict d after d[k] = v.
DictSet(d, k, v) ==
    [x \in (DOMAIN d) \cup {k} |-> IF x = k THEN v ELSE d[x]]

EmptyDict == [x \in {} |-> FALSE]

\* main, lines 110-113: check the prerequisites, exit with status 1 without them.
CheckPrerequisites ==
    /\ pc = "check_prerequisites"
    /\ LET ok == check_prerequisites(exists) IN
        /\ prerequisites' = IF ok THEN "True" ELSE "False"
        /\ IF ok
             THEN /\ pc' = "call"
                  /\ UNCHANGED <<printed, exit_status>>
             ELSE /\ pc' = "exited"
                  /\ printed' = printed \cup {"Prerequisites not met. Exiting."}
                  /\ exit_status' = 1
    /\ UNCHANGED <<exists, raises, next_module, running, started, returned, results>>
    /\ UNCHANGED otherThanOrch

\* main calls run_module for the next module: its main() is entered.
CallModule ==
    /\ pc = "call"
    /\ next_module \in DOMAIN ModuleOrder
    /\ running' = ModuleOrder[next_module]
    /\ started' = Append(started, ModuleOrder[next_module])
    /\ pc' = "in_module"
    /\ UNCHANGED <<exists, raises, next_module, returned, prerequisites,
                   results, printed, exit_status>>
    /\ UNCHANGED otherThanOrch

\* What main does with the value run_module returned for module m.
AfterModule(m, ok) ==
    /\ running' = "none"
    /\ returned' = returned \cup {m}
    /\ results' = DictSet(results, ResultKey[m], ok)
    /\ IF m \in MustSucceed /\ ~ok
         THEN /\ pc' = "exited"
              /\ exit_status' = 1
              /\ printed' = printed \cup {"Cannot proceed."}
              /\ UNCHANGED next_module
         ELSE /\ next_module' = next_module + 1
              /\ pc' = IF next_module = Len(ModuleOrder) THEN "summary" ELSE "call"
              /\ UNCHANGED <<printed, exit_status>>
    /\ UNCHANGED <<exists, raises, started, prerequisites>>
    /\ UNCHANGED otherThanOrch

\* The module's main() returns: run_module prints the time and returns True.
ModuleReturns ==
    /\ pc = "in_module"
    /\ running \notin raises
    /\ AfterModule(running, run_module(running, raises))

\* The module's main() raises: run_module prints the traceback and returns False.
ModuleRaises ==
    /\ pc = "in_module"
    /\ running \in raises
    /\ AfterModule(running, run_module(running, raises))

\* main, lines 150-201: the summary table, the output list and the final message.
Summary ==
    /\ pc = "summary"
    /\ printed' = printed \cup {"OUTPUT FILES GENERATED",
                                "Task 2 analysis pipeline completed successfully!"}
    /\ pc' = "exited"
    /\ exit_status' = 0
    /\ UNCHANGED <<exists, raises, next_module, running, started, returned,
                   prerequisites, results>>
    /\ UNCHANGED otherThanOrch

OrchNext ==
    \/ CheckPrerequisites
    \/ CallModule
    \/ ModuleReturns
    \/ ModuleRaises
    \/ Summary

(***************************************************************************)
(* Properties of run_task2_analysis.main                                   *)
(***************************************************************************)

Range(f) == {f[x] : x \in DOMAIN f}

IsPrefix(s, t) == Len(s) <= Len(t) /\ s = SubSeq(t, 1, Len(s))

Failed(key) == key \in DOMAIN results /\ ~results[key]

Succeeded(key) == key \in DOMAIN results /\ results[key]

FinalMessage == "Task 2 analysis pipeline completed successfully!"

\* C1: the modules start in the order sentiment_analysis, topic_modeling,
\* visualizations, generate_report; at most one module is entered and not yet
\* returned; and when a module starts, every module before it in that order
\* has started and returned.
C1_StrictModuleOrder ==
    /\ IsPrefix(started, <<"sentiment_analysis", "topic_modeling",
                           "visualizations", "generate_report">>)
    /\ Cardinality(Range(started) \ returned) <= 1
    /\ \A i \in DOMAIN started :
         \A j \in 1..(i - 1) : started[j] \in returned
    /\ (running # "none") <=> (Range(started) \ returned = {running})

C1_Witness ==
    /\ running = "generate_report"
    /\ returned = {"sentiment_analysis", "topic_modeling", "visualizations"}

\* C2: once sentiment_analysis has failed the process has exited with status 1
\* and nothing but sentiment_analysis was ever started; once topic_modeling has
\* failed the process has exited with status 1 and visualizations and
\* generate_report were never started.
C2_FailureStopsPipeline ==
    /\ Failed("sentiment") =>
          /\ pc = "exited" /\ exit_status = 1
          /\ started = <<"sentiment_analysis">>
    /\ Failed("topics") =>
          /\ pc = "exited" /\ exit_status = 1
          /\ started = <<"sentiment_analysis", "topic_modeling">>

C2_Witness ==
    /\ Succeeded("sentiment") /\ Failed("topics")
    /\ {"visualizations", "generate_report"} \subseteq raises
    /\ pc = "exited"

\* C3: when the final success message and the list of generated output files
\* are printed, all four modules returned success.
C3_SuccessMessageMeansAllSucceeded ==
    (FinalMessage \in printed /\ "OUTPUT FILES GENERATED" \in printed) =>
        /\ Succeeded("sentiment") /\ Succeeded("topics")
        /\ Succeeded("visualizations") /\ Succeeded("report")

\* C4: without data/bank_reviews_clean.csv check_prerequisites returns False
\* and main exits with status 1 before any module starts; with the file it
\* returns True.
C4_Prerequisites ==
    prerequisites # "unset" =>
        /\ exists => prerequisites = "True"
        /\ ~exists =>
              /\ prerequisites = "False"
              /\ pc = "exited" /\ exit_status = 1
              /\ started = <<>> /\ running = "none"

C4_Witness ==
    /\ ~exists /\ prerequisites = "False" /\ pc = "exited"
    /\ raises = {}

(***************************************************************************)
(* clean_reviews.py: text cleaning                                         *)
(***************************************************************************)

\* A cell of a table: NaN/None, or a value.
NaN == [isnull |-> TRUE, val |-> <<>>]

Str(s) == [isnull |-> FALSE, val |-> s]

\* Characters, one per class the cleaning tells apart.  A text is a sequence
\* of characters.
PrintableChars == {"a"}                 \* \x21-\x7E
SpaceChar == " "                        \* \x20
OtherWhitespace == {"\t", "\n"}         \* str.isspace() and \s, other than \x20
NonPrintableChars == {"<e9>"}           \* outside \x20-\x7E, not whitespace

Chars == PrintableChars \cup {SpaceChar} \cup OtherWhitespace \cup NonPrintableChars

\* str.isspace(), which is also what \s matches in a str pattern.
IsSpace(c) == c = SpaceChar \/ c \in OtherWhitespace

\* The complement of the class [^\x20-\x7E\n]: what the last re.sub keeps.
KeptByFilter(c) == c \in PrintableChars \/ c = SpaceChar \/ c = "\n"

RECURSIVE LStrip(_)
LStrip(s) ==
    IF s # <<>> /\ IsSpace(Head(s)) THEN LStrip(Tail(s)) ELSE s

RECURSIVE RStrip(_)
RStrip(s) ==
    IF s # <<>> /\ IsSpace(s[Len(s)]) THEN RStrip(SubSeq(s, 1, Len(s) - 1)) ELSE s

\* text.strip()
Strip(s) == RStrip(LStrip(s))

\* re.sub(r'\s+', ' ', text): every maximal run of whitespace becomes one space.
RECURSIVE CollapseWhitespace(_)
CollapseWhitespace(s) ==
    IF s = <<>> THEN <<>>
    ELSE IF IsSpace(Head(s))
           THEN <<SpaceChar>> \o CollapseWhitespace(LStrip(s))
           ELSE <<Head(s)>> \o CollapseWhitespace(Tail(s))

\* re.sub(r'[^\x20-\x7E\n]', '', text)
RemoveNonPrintable(s) == SelectSeq(s, KeptByFilter)

\* The three steps of clean_review_text on a string, in the order of the code.
CleanString(s) == RemoveNonPrintable(CollapseWhitespace(Strip(s)))

\* clean_review_text: "" for a null, else the cleaned str(text).
clean_review_text(cell) ==
    IF cell.isnull THEN <<>> ELSE CleanString(cell.val)

RECURSIVE SeqsUpTo(_, _)
SeqsUpTo(S, n) ==
    IF n = 0 THEN {<<>>}
    ELSE LET shorter == SeqsUpTo(S, n - 1) IN
         shorter \cup {Append(s, c) : s \in shorter, c \in S}

Texts == SeqsUpTo(Chars, MaxLen)

\* df['review_text'].apply(clean_review_text), for one element.
ApplyClean ==
    /\ tpc = "start"
    /\ cleaned' = clean_review_text(text)
    /\ tpc' = "once"
    /\ UNCHANGED <<text, recleaned>>
    /\ UNCHANGED otherThanText

\* clean_review_text applied to the string it returned.
ApplyCleanAgain ==
    /\ tpc = "once"
    /\ recleaned' = clean_review_text(Str(cleaned))
    /\ tpc' = "twice"
    /\ UNCHANGED <<text, cleaned>>
    /\ UNCHANGED otherThanText

TextNext ==
    \/ ApplyClean
    \/ ApplyCleanAgain

NoEdgeWhitespace(s) ==
    s = <<>> \/ (~IsSpace(s[1]) /\ ~IsSpace(s[Len(s)]))

NoSpaceRun(s) ==
    \A i \in 1..(Len(s) - 1) : ~(s[i] = SpaceChar /\ s[i + 1] = SpaceChar)

OnlyPrintableAscii(s) ==
    \A i \in DOMAIN s : s[i] \in PrintableChars \cup {SpaceChar}

\* C7: the string clean_review_text returns has no leading or trailing
\* whitespace, no run of two or more spaces and only printable ASCII
\* characters, and clean_review_text maps it to itself.
C7_CleanTextNormalForm ==
    /\ tpc \in {"once", "twice"} =>
          /\ NoEdgeWhitespace(cleaned)
          /\ NoSpaceRun(cleaned)
          /\ OnlyPrintableAscii(cleaned)
    /\ tpc = "twice" => recleaned = cleaned

(***************************************************************************)
(* clean_reviews.py: tables                                                *)
(*                                                                         *)
(* A DataFrame is [columns, rows]: the column labels in order, and the      *)
(* rows in order, each [index, values] with values parallel to columns.     *)
(***************************************************************************)

\* The columns scrape_reviews writes to data/bank_reviews_raw.csv.
RawColumns == <<"review_text", "rating", "date", "bank_name", "source">>

NoTable == [columns |-> <<>>, rows |-> <<>>]

Num(n) == [isnull |-> FALSE, val |-> n]

\* Positions of the columns labelled name.
Positions(t, name) == {i \in DOMAIN t.columns : t.columns[i] = name}

ColPos(t, name) == CHOOSE i \in Positions(t, name) : \A j \in Positions(t, name) : i <= j

\* t[name] of row r.
Get(t, r, name) == r.values[ColPos(t, name)]

\* The row r of t with t[name] set to v.
Put(t, r, name, v) == [r EXCEPT !.values[ColPos(t, name)] = v]

\* The rows of a sequence at the positions of keep, in order.
RECURSIVE SelectAt(_, _, _)
SelectAt(rows, keep, i) ==
    IF i > Len(rows) THEN <<>>
    ELSE (IF i \in keep THEN <<rows[i]>> ELSE <<>>) \o SelectAt(rows, keep, i + 1)

\* df[mask]: the rows at the positions of mask.
Filter(t, mask) == [t EXCEPT !.rows = SelectAt(t.rows, mask, 1)]

\* df.dropna(subset=[name])
DropNa(t, name) ==
    Filter(t, {i \in DOMAIN t.rows : ~Get(t, t.rows[i], name).isnull})

\* df[name] = series, a cell for every row.
Assign(t, name, series) ==
    [t EXCEPT !.rows = [i \in DOMAIN t.rows |-> Put(t, t.rows[i], name, series[i])]]

\* df[name]
Column(t, name) == [i \in DOMAIN t.rows |-> Get(t, t.rows[i], name)]

\* Series.duplicated(subset): row i repeats the subset of an earlier row
\* (nulls compare equal).
Duplicated(t, subset) ==
    {i \in DOMAIN t.rows :
        \E j \in 1..(i - 1) :
            \A c \in subset : Get(t, t.rows[j], c) = Get(t, t.rows[i], c)}

\* remove_duplicates: drop_duplicates(subset=[review_text, bank_name], keep='first').
remove_duplicates(t) ==
    LET dup == Duplicated(t, {"review_text", "bank_name"})
        df_clean == [t EXCEPT !.rows = SelectAt(t.rows, (DOMAIN t.rows) \ dup, 1)]
    IN  [df |-> df_clean, duplicates_removed |-> Len(t.rows) - Len(df_clean.rows)]

\* A sequence of integers with x inserted in ascending order.
RECURSIVE Insert(_, _)
Insert(s, x) ==
    IF s = <<>> THEN <<x>>
    ELSE IF x <= Head(s) THEN <<x>> \o s
    ELSE <<Head(s)>> \o Insert(Tail(s), x)

RECURSIVE Sorted(_)
Sorted(s) == IF s = <<>> THEN <<>> ELSE Insert(Sorted(Tail(s)), Head(s))

\* Ratings are held in half stars (2 is one star, 10 is five), so that the
\* median of an even number of whole ratings is a value of the model.
\* Series.median(): NaN when no value is present.
Median(t) ==
    LET present == SelectSeq(Column(t, "rating"), LAMBDA c : ~c.isnull)
        v == Sorted([i \in DOMAIN present |-> present[i].val])
        n == Len(v)
    IN  IF n = 0 THEN NaN
        ELSE IF n % 2 = 1 THEN Num(v[(n + 1) \div 2])
        ELSE Num((v[n \div 2] + v[n \div 2 + 1]) \div 2)

NullCount(t, i) ==
    Cardinality({k \in DOMAIN t.rows : t.rows[k].values[i].isnull})

\* handle_missing_values: report the nulls, drop the rows without review_text,
\* fill the missing ratings with the median, drop the rows without date.
handle_missing_values(t) ==
    LET report == [i \in DOMAIN t.columns |-> NullCount(t, i)]
        d1 == DropNa(t, "review_text")
        anyMissing == \E i \in DOMAIN d1.rows : Get(d1, d1.rows[i], "rating").isnull
        median_rating == Median(d1)
        rating == Column(d1, "rating")
        d2 == IF anyMissing
                THEN Assign(d1, "rating",
                            [i \in DOMAIN rating |->
                                IF rating[i].isnull THEN median_rating ELSE rating[i]])
                ELSE d1
    IN  [df |-> DropNa(d2, "date"), missing_report |-> report]

\* A date value: a str in one of the written forms, a Timestamp, or an int.
DateVal(type, form, y, m, d) ==
    [type |-> type, form |-> form, y |-> y, m |-> m, d |-> d]

IsLeap(y) == (y % 4 = 0 /\ y % 100 # 0) \/ y % 400 = 0

DaysInMonth(y, m) ==
    IF m = 2 THEN (IF IsLeap(y) THEN 29 ELSE 28)
    ELSE IF m \in {4, 6, 9, 11} THEN 30 ELSE 31

IsCalendarDate(v) ==
    /\ v.m \in 1..12
    /\ v.d \in 1..DaysInMonth(v.y, v.m)

\* The forms of string pd.to_datetime reads.
DateForms == {"%Y-%m-%d", "%Y-%m-%d %H:%M:%S", "%m/%d/%Y"}

\* pd.to_datetime(date_str) raises for a string it cannot read as a date.
ToDatetimeRaises(v) ==
    v.form # "" /\ ~(v.form \in DateForms /\ IsCalendarDate(v))

\* pd.to_datetime(date_str): NaT for the empty string, else a Timestamp.
to_datetime(v) ==
    IF v.form = "" THEN DateVal("NaT", "", 0, 0, 0)
    ELSE DateVal("Timestamp", "", v.y, v.m, v.d)

\* dt.strftime exists and returns for a Timestamp; an int has no strftime and
\* NaT.strftime raises.
StrftimeRaises(v) == v.type # "Timestamp"

\* dt.strftime('%Y-%m-%d') of a Timestamp.
strftime(v) == DateVal("str", "%Y-%m-%d", v.y, v.m, v.d)

\* parse_date that leaves what it cannot parse in place.
parse_date_keeping(cell) ==
    IF cell.isnull THEN NaN
    ELSE LET dt == IF cell.val.type = "str" /\ ~ToDatetimeRaises(cell.val)
                     THEN to_datetime(cell.val) ELSE cell.val
         IN  IF StrftimeRaises(dt) THEN cell ELSE Str(strftime(dt))

\* parse_date: None for a null and whenever the try block raises.
parse_date(cell) ==
    IF cell.isnull THEN NaN
    ELSE IF cell.val.type = "str" /\ ToDatetimeRaises(cell.val) THEN NaN
    ELSE LET dt == IF cell.val.type = "str" THEN to_datetime(cell.val) ELSE cell.val
         IN  IF StrftimeRaises(dt) THEN NaN ELSE Str(strftime(dt))

\* normalize_dates
normalize_dates(t) ==
    LET date == Column(t, "date") IN
    DropNa(Assign(t, "date", [i \in DOMAIN date |-> parse_date(date[i])]), "date")

\* clean_text that cleans and drops nothing.
clean_text_keeping(t) ==
    LET review_text == Column(t, "review_text")
        applied == Assign(t, "review_text",
                          [i \in DOMAIN review_text |->
                              Str(clean_review_text(review_text[i]))])
    IN  [df |-> applied, empty_removed |-> 0]

\* clean_text: clean every review_text, drop the rows whose text has length 0.
clean_text(t) ==
    LET review_text == Column(t, "review_text")
        applied == Assign(t, "review_text",
                          [i \in DOMAIN review_text |->
                              Str(clean_review_text(review_text[i]))])
        kept == Filter(applied,
                       {i \in DOMAIN applied.rows :
                           Len(Get(applied, applied.rows[i], "review_text").val) > 0})
    IN  [df |-> kept, empty_removed |-> Len(applied.rows) - Len(kept.rows)]

\* column_mapping of standardize_schema; a label it does not name is kept.
Rename(label) ==
    CASE label = "review_text" -> "review"
      [] label = "bank_name" -> "bank"
      [] OTHER -> label

FinalColumns == <<"review", "rating", "date", "bank", "source">>

\* df[labels]: for each label in turn, every column carrying it.
RECURSIVE SelectColumns(_, _)
SelectColumns(columns, labels) ==
    IF labels = <<>> THEN <<>>
    ELSE SelectSeq([i \in DOMAIN columns |-> i],
                   LAMBDA i : columns[i] = Head(labels))
         \o SelectColumns(columns, Tail(labels))

\* standardize_schema that renames and selects nothing.
standardize_schema_renaming(t) ==
    [t EXCEPT !.columns = [i \in DOMAIN t.columns |-> Rename(t.columns[i])]]

\* standardize_schema: rename, then select the five columns in order.
standardize_schema(t) ==
    LET renamed == [i \in DOMAIN t.columns |-> Rename(t.columns[i])]
        pick == SelectColumns(renamed, FinalColumns)
    IN  [columns |-> [k \in DOMAIN pick |-> renamed[pick[k]]],
         rows |-> [i \in DOMAIN t.rows |->
                     [t.rows[i] EXCEPT
                        !.values = [k \in DOMAIN pick |-> t.rows[i].values[pick[k]]]]]]

\* validate_data: True when none of the four checks finds an issue.
validate_data(t) ==
    LET duplicates == Cardinality(Duplicated(t, {"review", "bank"}))
        invalid_ratings ==
            Cardinality({i \in DOMAIN t.rows :
                LET c == Get(t, t.rows[i], "rating") IN
                ~c.isnull /\ (c.val < 2 \/ c.val > 10)})
        missing ==
            Cardinality({<<i, k>> \in (DOMAIN t.rows) \X (DOMAIN t.columns) :
                t.rows[i].values[k].isnull})
        empty_reviews ==
            Cardinality({i \in DOMAIN t.rows :
                LET c == Get(t, t.rows[i], "review") IN
                ~c.isnull /\ Len(c.val) = 0})
    IN  duplicates = 0 /\ invalid_ratings = 0 /\ missing = 0 /\ empty_reviews = 0

(***************************************************************************)
(* Input tables                                                            *)
(***************************************************************************)

\* A column a raw file may carry besides the five.
ExtraColumn == "review_id"

AllColumns == RawColumns \o <<ExtraColumn>>

Date(form, y, m, d) == Str(DateVal("str", form, y, m, d))

\* "2024-01-05", "2024-01-05 10:30:00", "12/31/2023", "2024-02-29";
\* "2023-02-29" and "not a date", which to_datetime rejects; "";
\* the int 20240105 and a Timestamp.
GoodDate == Date("%Y-%m-%d", 2024, 1, 5)

DateSamples ==
    {NaN, GoodDate,
     Date("%Y-%m-%d %H:%M:%S", 2024, 1, 5),
     Date("%m/%d/%Y", 2023, 12, 31),
     Date("%Y-%m-%d", 2024, 2, 29),
     Date("%Y-%m-%d", 2023, 2, 29),
     Date("text", 0, 0, 0),
     Date("", 0, 0, 0),
     Str(DateVal("int", "", 2024, 1, 5)),
     Str(DateVal("Timestamp", "", 2024, 1, 5))}

TextSamples ==
    {NaN, Str(<<>>), Str(<<"a">>), Str(<<"a", " ">>), Str(<<" ">>),
     Str(<<"\t", "\n">>), Str(<<"<e9>">>), Str(<<"<e9>", "<e9>">>),
     Str(<<"<e9>", " ", "<e9>">>), Str(<<"\n", "a", "\t", "a">>)}

\* A row as scraped, and a row of nulls, over AllColumns.
TypicalRow ==
    <<Str(<<"a">>), Num(10), GoodDate, Str("Dashen Bank"), Str("google_play"), Num(1)>>

BlankRow == <<NaN, NaN, NaN, NaN, NaN, NaN>>

OtherRow ==
    <<Str(<<"a", " ", "a">>), Num(2), GoodDate, Str("Bank of Abyssinia"),
      Str("google_play"), Num(2)>>

\* The rows the functions are called on: a scraped row with every sample of
\* review_text and of date in turn, the row of nulls and a second scraped row.
FnRows ==
    {[TypicalRow EXCEPT ![1] = v] : v \in TextSamples}
    \cup {[TypicalRow EXCEPT ![3] = v] : v \in DateSamples}
    \cup {BlankRow, OtherRow}

\* The rows of a raw file given to main: every combination of the samples.
MainRows ==
    {<<t, r, d, b, s, Num(1)>> :
        t \in {NaN, Str(<<"a">>), Str(<<"a", " ">>), Str(<<"<e9>">>)},
        r \in {NaN, Num(4), Num(10)},
        d \in {NaN, GoodDate, Date("text", 0, 0, 0)},
        b \in {NaN, Str("Dashen Bank"), Str("Bank of Abyssinia")},
        s \in {NaN, Str("google_play")}}

IndexOf(seq, x) == CHOOSE i \in DOMAIN seq : seq[i] = x

\* The table with the given columns and the given rows (over AllColumns),
\* indexed 0, 1, ... as read_csv does.
MkTable(columns, rows) ==
    [columns |-> columns,
     rows |-> [i \in DOMAIN rows |->
                 [index |-> i - 1,
                  values |-> [k \in DOMAIN columns |->
                                rows[i][IndexOf(AllColumns, columns[k])]]]]]

Orderings(S) ==
    {s \in [1..Cardinality(S) -> S] : \A i, j \in DOMAIN s : i # j => s[i] # s[j]}

\* seq with x put before position k.
InsertAt(seq, k, x) ==
    SubSeq(seq, 1, k - 1) \o <<x>> \o SubSeq(seq, k, Len(seq))

Reverse(seq) == [i \in DOMAIN seq |-> seq[Len(seq) + 1 - i]]

\* Every ordering of the raw columns, and the raw columns, as written and
\* reversed, with the extra column at every place.
Layouts ==
    Orderings({RawColumns[i] : i \in DOMAIN RawColumns})
    \cup {InsertAt(base, k, ExtraColumn) :
            base \in {RawColumns, Reverse(RawColumns)},
            k \in 1..(Len(RawColumns) + 1)}

MainTables == {MkTable(RawColumns, rows) : rows \in SeqsUpTo(MainRows, MaxRows)}

FnTables ==
    {MkTable(RawColumns, rows) : rows \in SeqsUpTo(FnRows, MaxRows)}
    \cup {MkTable(columns, rows) :
            columns \in Layouts,
            rows \in SeqsUpTo({TypicalRow, BlankRow, OtherRow}, MaxRows)}

(***************************************************************************)
(* clean_reviews.main, step by step (SpecClean)                            *)
(***************************************************************************)

EmptyReport == <<>>

\* Step 1
RemoveDuplicates ==
    /\ cpc = "remove_duplicates"
    /\ LET r == remove_duplicates(df) IN
        /\ df' = r.df
        /\ duplicates_removed' = r.duplicates_removed
    /\ cpc' = "handle_missing_values"
    /\ UNCHANGED <<raw, missing_report, empty_removed, is_valid, saved>>
    /\ UNCHANGED otherThanClean

\* Step 2
HandleMissingValues ==
    /\ cpc = "handle_missing_values"
    /\ LET r == handle_missing_values(df) IN
        /\ df' = r.df
        /\ missing_report' = r.missing_report
    /\ cpc' = "normalize_dates"
    /\ UNCHANGED <<raw, duplicates_removed, empty_removed, is_valid, saved>>
    /\ UNCHANGED otherThanClean

\* Step 3
NormalizeDates ==
    /\ cpc = "normalize_dates"
    /\ df' = normalize_dates(df)
    /\ cpc' = "clean_text"
    /\ UNCHANGED <<raw, duplicates_removed, missing_report, empty_removed,
                   is_valid, saved>>
    /\ UNCHANGED otherThanClean

\* Step 4
CleanText ==
    /\ cpc = "clean_text"
    /\ LET r == clean_text(df) IN
        /\ df' = r.df
        /\ empty_removed' = r.empty_removed
    /\ cpc' = "standardize_schema"
    /\ UNCHANGED <<raw, duplicates_removed, missing_report, is_valid, saved>>
    /\ UNCHANGED otherThanClean

\* Step 5
StandardizeSchema ==
    /\ cpc = "standardize_schema"
    /\ df' = standardize_schema(df)
    /\ cpc' = "validate_data"
    /\ UNCHANGED <<raw, duplicates_removed, missing_report, empty_removed,
                   is_valid, saved>>
    /\ UNCHANGED otherThanClean

\* Step 6, and df.to_csv(OUTPUT_FILE): the table is written whatever
\* validate_data returned.
ValidateAndSave ==
    /\ cpc = "validate_data"
    /\ is_valid' = IF validate_data(df) THEN "True" ELSE "False"
    /\ saved' = df
    /\ cpc' = "saved"
    /\ UNCHANGED <<raw, df, duplicates_removed, missing_report, empty_removed>>
    /\ UNCHANGED otherThanClean

CleanNext ==
    \/ RemoveDuplicates
    \/ HandleMissingValues
    \/ NormalizeDates
    \/ CleanText
    \/ StandardizeSchema
    \/ ValidateAndSave

(***************************************************************************)
(* The steps called on their own (SpecFn)                                  *)
(***************************************************************************)

CallNormalizeDates ==
    /\ cpc = "call"
    /\ df' = normalize_dates(raw)
    /\ cpc' = "normalize_dates returned"
    /\ UNCHANGED <<raw, duplicates_removed, missing_report, empty_removed,
                   is_valid, saved>>
    /\ UNCHANGED otherThanClean

CallCleanText ==
    /\ cpc = "call"
    /\ LET r == clean_text(raw) IN
        /\ df' = r.df
        /\ empty_removed' = r.empty_removed
    /\ cpc' = "clean_text returned"
    /\ UNCHANGED <<raw, duplicates_removed, missing_report, is_valid, saved>>
    /\ UNCHANGED otherThanClean

CallStandardizeSchema ==
    /\ cpc = "call"
    /\ df' = standardize_schema(raw)
    /\ cpc' = "standardize_schema returned"
    /\ UNCHANGED <<raw, duplicates_removed, missing_report, empty_removed,
                   is_valid, saved>>
    /\ UNCHANGED otherThanClean

FnNext ==
    \/ CallNormalizeDates
    \/ CallCleanText
    \/ CallStandardizeSchema

(***************************************************************************)
(* Properties of the cleaning steps                                        *)
(***************************************************************************)

Indexes(t) == [i \in DOMAIN t.rows |-> t.rows[i].index]

\* The row of t with the given index label.
RowOf(t, idx) == t.rows[CHOOSE i \in DOMAIN t.rows : t.rows[i].index = idx]

\* C5: the table clean_reviews.main writes has no two rows with the same
\* (review, bank): the duplicate check of validate_data finds nothing.
C5_SavedHasNoDuplicates ==
    cpc = "saved" =>
        \A i, j \in DOMAIN saved.rows :
            (/\ Get(saved, saved.rows[i], "review") = Get(saved, saved.rows[j], "review")
             /\ Get(saved, saved.rows[i], "bank") = Get(saved, saved.rows[j], "bank"))
            => i = j

\* C6: every row of the table clean_reviews.main writes has a value in each
\* of review, rating, date, bank and source.
C6_SavedHasNoMissingValue ==
    cpc = "saved" =>
        \A i \in DOMAIN saved.rows :
            \A c \in {"review", "rating", "date", "bank", "source"} :
                ~Get(saved, saved.rows[i], c).isnull

OnlyWhitespace(s) == \A i \in DOMAIN s : IsSpace(s[i])

OnlyNonPrintable(s) == \A i \in DOMAIN s : ~KeptByFilter(s[i]) /\ ~IsSpace(s[i])

\* The rows of the argument whose text is empty once cleaned.
EmptyWhenCleaned ==
    {i \in DOMAIN raw.rows :
        clean_review_text(Get(raw, raw.rows[i], "review_text")) = <<>>}

IsYMD(c) ==
    /\ ~c.isnull
    /\ c.val.type = "str"
    /\ c.val.form = "%Y-%m-%d"
    /\ c.val.y \in 1000..9999
    /\ IsCalendarDate(c.val)

\* The date is missing or cannot be parsed.
Unparseable(c) ==
    \/ c.isnull
    \/ c.val.type = "int"
    \/ c.val.type = "str" /\ c.val.form \notin {"%Y-%m-%d", "%Y-%m-%d %H:%M:%S", "%m/%d/%Y"}
    \/ c.val.type = "str" /\ ~IsCalendarDate(c.val)

\* C9: after normalize_dates every row's date is a string YYYY-MM-DD; the
\* rows dropped are exactly those whose date is missing or cannot be parsed;
\* and a kept row has every other column as it was.
C9_NormalizeDates ==
    cpc = "normalize_dates returned" =>
        /\ df.columns = raw.columns
        /\ \A i \in DOMAIN df.rows : IsYMD(Get(df, df.rows[i], "date"))
        /\ Indexes(df) =
              SelectAt(Indexes(raw),
                       {i \in DOMAIN raw.rows :
                           ~Unparseable(Get(raw, raw.rows[i], "date"))}, 1)
        /\ \A i \in DOMAIN df.rows :
              LET before == RowOf(raw, df.rows[i].index) IN
              /\ \A k \in DOMAIN df.columns :
                    df.columns[k] # "date" => df.rows[i].values[k] = before.values[k]
              /\ LET was == Get(raw, before, "date").val
                     now == Get(df, df.rows[i], "date").val
                 IN  now.y = was.y /\ now.m = was.m /\ now.d = was.d

C9_Witness ==
    /\ cpc = "normalize_dates returned"
    /\ Len(raw.rows) = 2
    /\ Len(df.rows) = 1
    /\ Get(raw, raw.rows[1], "date") = Date("text", 0, 0, 0)
    /\ Get(raw, raw.rows[2], "date") = Date("%Y-%m-%d %H:%M:%S", 2024, 1, 5)
    /\ Get(df, df.rows[1], "date") = GoodDate

\* C10: standardize_schema returns the columns review, rating, date, bank,
\* source in that order, with the rows of its argument in the same order and
\* every cell as it was: review is review_text, bank is bank_name, and no
\* other column is left.
C10_StandardizeSchema ==
    cpc = "standardize_schema returned" =>
        /\ df.columns = <<"review", "rating", "date", "bank", "source">>
        /\ Indexes(df) = Indexes(raw)
        /\ \A i \in DOMAIN df.rows :
              df.rows[i].values =
                  <<Get(raw, raw.rows[i], "review_text"),
                    Get(raw, raw.rows[i], "rating"),
                    Get(raw, raw.rows[i], "date"),
                    Get(raw, raw.rows[i], "bank_name"),
                    Get(raw, raw.rows[i], "source")>>

C10_Witness ==
    /\ cpc = "standardize_schema returned"
    /\ raw.columns = <<"source", "review_id", "bank_name", "date", "rating", "review_text">>
    /\ Len(df.rows) = 2
    /\ df.rows[1].values # df.rows[2].values

(***************************************************************************)
(* scrape_reviews.py: scrape_app_reviews (SpecScrape)                      *)
(***************************************************************************)

\* APPS_CONFIG: short_name -> bank_name.
APPS_CONFIG ==
    [cbe |-> "Commercial Bank of Ethiopia",
     boa |-> "Bank of Abyssinia",
     dashen |-> "Dashen Bank"]

TARGET_REVIEWS_PER_APP == 400

\* count=min(200, ...): the most reviews asked for in one request.
BatchLimit == 200

\* time.sleep(1)
DelaySeconds == 1

Min(a, b) == IF a < b THEN a ELSE b

\* continuation_token = None, and the token the k-th request returned.
NoneToken == <<>>

Token(k) == <<k>>

\* pd.DataFrame(): no columns, no rows.
EmptyFrame == [columns |-> <<>>, bank_name |-> "", reviews |-> <<>>]

\* df_clean: one row per collected review, with the bank's name.
Frame(bank_name, reviews) ==
    [columns |-> RawColumns, bank_name |-> bank_name, reviews |-> reviews]

\* The reviews the k-th request returns when it returns n of them.
Batch(k, n) == [j \in 1..n |-> <<k, j>>]

\* The token a request is given: the variable continuation_token, dropped.
TokenPassedNone(token) == NoneToken

\* continuation_token=continuation_token
TokenPassed(token) == token

\* all_reviews = result
ExtendReplacing(reviews, result) == result

\* all_reviews.extend(result)
Extend(reviews, result) == reviews \o result

\* while len(all_reviews) < count: the next request is sent.
SendRequest ==
    /\ spc = "loop"
    /\ Len(all_reviews) < TARGET_REVIEWS_PER_APP
    /\ requests' = Append(requests,
                          [token |-> TokenPassed(continuation_token),
                           count |-> Min(BatchLimit,
                                         TARGET_REVIEWS_PER_APP - Len(all_reviews))])
    /\ events' = Append(events, [type |-> "request", seconds |-> 0])
    /\ spc' = "in_request"
    /\ UNCHANGED <<app, all_reviews, continuation_token, responses, files,
                   returned_df, scrape_error>>
    /\ UNCHANGED otherThanScrape

\* The loop condition fails: enough reviews are collected.
LoopEnds ==
    /\ spc = "loop"
    /\ Len(all_reviews) >= TARGET_REVIEWS_PER_APP
    /\ spc' = "convert"
    /\ UNCHANGED <<app, all_reviews, continuation_token, requests, responses,
                   events, files, returned_df, scrape_error>>
    /\ UNCHANGED otherThanScrape

\* reviews(...) raises: "Error during batch scraping", break.
RequestRaises ==
    /\ spc = "in_request"
    /\ responses' = Append(responses,
                           [raised |-> TRUE, result |-> <<>>, token |-> NoneToken])
    /\ spc' = "convert"
    /\ UNCHANGED <<app, all_reviews, continuation_token, requests, events,
                   files, returned_df, scrape_error>>
    /\ UNCHANGED otherThanScrape

\* reviews(...) returns no review: "No more reviews available", break.
ResponseEmpty ==
    /\ spc = "in_request"
    /\ \E token \in {NoneToken, Token(Len(requests))} :
        /\ responses' = Append(responses,
                               [raised |-> FALSE, result |-> <<>>, token |-> token])
        /\ continuation_token' = token
    /\ spc' = "convert"
    /\ UNCHANGED <<app, all_reviews, requests, events, files, returned_df,
                   scrape_error>>
    /\ UNCHANGED otherThanScrape

\* reviews(...) returns reviews and no token: "Reached end", break.
ResponseLast ==
    /\ spc = "in_request"
    /\ \E n \in {1, requests[Len(requests)].count} :
        LET result == Batch(Len(requests), n) IN
        /\ responses' = Append(responses,
                               [raised |-> FALSE, result |-> result,
                                token |-> NoneToken])
        /\ all_reviews' = Extend(all_reviews, result)
    /\ continuation_token' = NoneToken
    /\ spc' = "convert"
    /\ UNCHANGED <<app, requests, events, files, returned_df, scrape_error>>
    /\ UNCHANGED otherThanScrape

\* reviews(...) returns reviews and a token.  The app has at most MaxRequests
\* pages: the last of them either completes the count or is no response of
\* this kind.
ResponseMore ==
    /\ spc = "in_request"
    /\ \E n \in {1, requests[Len(requests)].count} :
        LET result == Batch(Len(requests), n) IN
        /\ \/ Len(requests) < MaxRequests
           \/ Len(all_reviews) + n >= TARGET_REVIEWS_PER_APP
        /\ responses' = Append(responses,
                               [raised |-> FALSE, result |-> result,
                                token |-> Token(Len(requests))])
        /\ all_reviews' = Extend(all_reviews, result)
    /\ continuation_token' = Token(Len(requests))
    /\ spc' = "sleep"
    /\ UNCHANGED <<app, requests, events, files, returned_df, scrape_error>>
    /\ UNCHANGED otherThanScrape

\* time.sleep(1), then back to the loop condition.
Sleep ==
    /\ spc = "sleep"
    /\ events' = Append(events, [type |-> "sleep", seconds |-> DelaySeconds])
    /\ spc' = "loop"
    /\ UNCHANGED <<app, all_reviews, continuation_token, requests, responses,
                   files, returned_df, scrape_error>>
    /\ UNCHANGED otherThanScrape

\* if all_reviews: the table is built, written to the bank's file and returned.
SaveAndReturn ==
    /\ spc = "convert"
    /\ all_reviews # <<>>
    /\ LET df_clean == Frame(APPS_CONFIG[app], all_reviews) IN
        /\ files' = [files EXCEPT ![app] = df_clean]
        /\ returned_df' = df_clean
    /\ spc' = "returned"
    /\ UNCHANGED <<app, all_reviews, continuation_token, requests, responses,
                   events, scrape_error>>
    /\ UNCHANGED otherThanScrape

\* if all_reviews: building or writing the table raises (to_csv cannot write
\* the file); the outer handler prints the error and returns pd.DataFrame().
SaveRaises ==
    /\ spc = "convert"
    /\ all_reviews # <<>>
    /\ scrape_error' = TRUE
    /\ returned_df' = EmptyFrame
    /\ spc' = "returned"
    /\ UNCHANGED <<app, all_reviews, continuation_token, requests, responses,
                   events, files>>
    /\ UNCHANGED otherThanScrape

\* else: "No reviews collected", pd.DataFrame() is returned.
ReturnEmpty ==
    /\ spc = "convert"
    /\ all_reviews = <<>>
    /\ returned_df' = EmptyFrame
    /\ spc' = "returned"
    /\ UNCHANGED <<app, all_reviews, continuation_token, requests, responses,
                   events, files, scrape_error>>
    /\ UNCHANGED otherThanScrape

ScrapeNext ==
    \/ SendRequest
    \/ LoopEnds
    \/ RequestRaises
    \/ ResponseEmpty
    \/ ResponseLast
    \/ ResponseMore
    \/ Sleep
    \/ SaveAndReturn
    \/ SaveRaises
    \/ ReturnEmpty

(***************************************************************************)
(* Properties of scrape_app_reviews                                        *)
(***************************************************************************)

\* C11: between two consecutive requests for the app a one-second sleep
\* occurs, and every request after the first passes the continuation token
\* that the request right before it returned.
C11_DelayAndTokenChain ==
    /\ \A i \in 1..(Len(events) - 1) :
          events[i].type = "request" =>
              events[i + 1].type = "sleep" /\ events[i + 1].seconds = 1
    /\ requests # <<>> => requests[1].token = <<>>
    /\ \A i \in 2..Len(requests) :
          /\ ~responses[i - 1].raised
          /\ responses[i - 1].token # <<>>
          /\ requests[i].token = responses[i - 1].token

C11_Witness ==
    /\ Len(requests) = 3
    /\ Len(responses) = 3
    /\ requests[3].token = <<2>>
    /\ events[Len(events)].type = "request"

RECURSIVE Collected(_)
Collected(resp) ==
    IF resp = <<>> THEN <<>>
    ELSE Collected(SubSeq(resp, 1, Len(resp) - 1)) \o resp[Len(resp)].result

SomeRequestRaised == \E i \in DOMAIN responses : responses[i].raised

LowerLetters ==
    {"a", "b", "c", "d", "e", "f", "g", "h", "i", "j", "k", "l", "m", "n", "o",
     "p", "q", "r", "s", "t", "u", "v", "w", "x", "y", "z"}

\* The upper-case letters of the sample texts, with str.lower() of each.
LowerOf == [B |-> "b", O |-> "o", K |-> "k"]

\* \s
Blank(c) == c \in {" ", "\t", "\n"}

\* str(text).lower()
Lower(s) ==
    [i \in DOMAIN s |-> IF s[i] \in DOMAIN LowerOf THEN LowerOf[s[i]] ELSE s[i]]

StartsWith(s, prefix) ==
    Len(s) >= Len(prefix) /\ SubSeq(s, 1, Len(prefix)) = prefix

\* s without its leading run of non-blank characters.
RECURSIVE DropRun(_)
DropRun(s) ==
    IF s = <<>> \/ Blank(Head(s)) THEN s ELSE DropRun(Tail(s))

\* The leading run of non-blank characters of s.
TakeRun(s) == SubSeq(s, 1, Len(s) - Len(DropRun(s)))

\* http\S+ or www\S+ matches at the head of s.
UrlAt(s) ==
    \E prefix \in {<<"h", "t", "t", "p">>, <<"w", "w", "w">>} :
        /\ StartsWith(s, prefix)
        /\ Len(s) > Len(prefix)
        /\ ~Blank(s[Len(prefix) + 1])

\* re.sub(r'http\S+|www\S+', '', text)
RECURSIVE RemoveUrls(_)
RemoveUrls(s) ==
    IF s = <<>> THEN <<>>
    ELSE IF UrlAt(s) THEN RemoveUrls(DropRun(s))
    ELSE <<Head(s)>> \o RemoveUrls(Tail(s))

\* \S+@\S+ matches in a run of non-blank characters: an @ that is neither
\* its first nor its last character; the match then spans the whole run.
EmailRun(run) == \E k \in 2..(Len(run) - 1) : run[k] = "@"

\* re.sub(r'\S+@\S+', '', text)
RECURSIVE RemoveEmails(_)
RemoveEmails(s) ==
    IF s = <<>> THEN <<>>
    ELSE IF Blank(Head(s)) THEN <<Head(s)>> \o RemoveEmails(Tail(s))
    ELSE (IF EmailRun(TakeRun(s)) THEN <<>> ELSE TakeRun(s))
         \o RemoveEmails(DropRun(s))

\* re.sub(r'[^a-z\s]', ' ', text)
LettersOnly(s) ==
    [i \in DOMAIN s |-> IF s[i] \in LowerLetters \/ Blank(s[i]) THEN s[i] ELSE " "]

\* The runs of non-blank characters of s, in order.
RECURSIVE SplitBlank(_)
SplitBlank(s) ==
    IF s = <<>> THEN <<>>
    ELSE IF Blank(Head(s)) THEN SplitBlank(Tail(s))
    ELSE <<TakeRun(s)>> \o SplitBlank(DropRun(s))

\* The contractions the tokenizer splits further, among the sample words:
\* "gonna" into "gon", "na" and "cannot" into "can", "not".
SplitContraction(word) ==
    IF word = <<"g", "o", "n", "n", "a">>
      THEN << <<"g", "o", "n">>, <<"n", "a">> >>
    ELSE IF word = <<"c", "a", "n", "n", "o", "t">>
      THEN << <<"c", "a", "n">>, <<"n", "o", "t">> >>
    ELSE <<word>>

RECURSIVE Flatten(_)
Flatten(ss) == IF ss = <<>> THEN <<>> ELSE Head(ss) \o Flatten(Tail(ss))

\* word_tokenize(text), for a text of lower-case letters and blanks.
word_tokenize(s) ==
    LET runs == SplitBlank(s) IN
    Flatten([i \in DOMAIN runs |-> SplitContraction(runs[i])])

\* custom_stopwords
custom_stopwords ==
    {
     <<"a", "p", "p">>,
     <<"b", "a", "n", "k">>,
     <<"b", "a", "n", "k", "i", "n", "g">>,
     <<"m", "o", "b", "i", "l", "e">>,
     <<"a", "p", "p", "l", "i", "c", "a", "t", "i", "o", "n">>,
     <<"a", "p", "p", "s">>,
     <<"u", "s", "e">>,
     <<"u", "s", "i", "n", "g">>,
     <<"u", "s", "e", "d">>,
     <<"o", "n", "e">>,
     <<"g", "e", "t">>,
     <<"m", "a", "k", "e">>,
     <<"a", "l", "s", "o">>,
     <<"w", "o", "u", "l", "d">>,
     <<"c", "o", "u", "l", "d">>,
     <<"e", "v", "e", "n">>,
     <<"r", "e", "a", "l", "l", "y">>,
     <<"m", "u", "c", "h">>,
     <<"w", "e", "l", "l">>,
     <<"g", "o", "o", "d">>,
     <<"b", "a", "d">>
    }

\* Members of stopwords.words('english').
english_stopwords ==
    {
     <<"t", "h", "e">>,
     <<"a", "n", "d">>,
     <<"n", "o", "t">>,
     <<"c", "a", "n">>,
     <<"a", "r", "e">>,
     <<"i", "t", "s">>,
     <<"w", "a", "s">>,
     <<"h", "a", "s">>,
     <<"v", "e", "r", "y">>,
     <<"t", "h", "i", "s">>,
     <<"i", "t">>,
     <<"s">>
    }

\* stop_words after stop_words.update(custom_stopwords)
stop_words == english_stopwords \cup custom_stopwords

\* The filter without the test of the length.
KeepWordAnyLength(word) == word \notin stop_words

\* word not in stop_words and len(word) >= 3
KeepWord(word) == word \notin stop_words /\ Len(word) >= 3

\* WordNetLemmatizer.lemmatize on the sample words: the plural nouns lose
\* their ending, every other word is returned as it is.
WordNetLemma(word) ==
    IF word = <<"b", "a", "n", "k", "s">> THEN <<"b", "a", "n", "k">>
    ELSE IF word = <<"c", "r", "a", "s", "h", "e", "s">> THEN <<"c", "r", "a", "s", "h">>
    ELSE word

Lemmatizers == {"identity", "wordnet"}

\* lemmatizer.lemmatize(word), for the lemmatizer of this run.
lemmatize(which, word) ==
    IF which = "wordnet" THEN WordNetLemma(word) ELSE word

\* clean_text of preprocess_text: [] for a null, else the lemmas of the words
\* that pass the filter.
tokens_of(cell, which) ==
    IF cell.isnull THEN <<>>
    ELSE LET words == word_tokenize(
                          LettersOnly(RemoveEmails(RemoveUrls(Lower(cell.val)))))
             kept == SelectSeq(words, KeepWord)
         IN  [i \in DOMAIN kept |-> lemmatize(which, kept[i])]

\* The pieces the sample reviews are made of: "Banks", "crashes", "the",
\* "OK", "fast!", "top10", "it's", "gonna", "www.x.io", "http://x", "a@b.io".
Pieces ==
    {
     <<"B", "a", "n", "k", "s">>,
     <<"c", "r", "a", "s", "h", "e", "s">>,
     <<"t", "h", "e">>,
     <<"O", "K">>,
     <<"f", "a", "s", "t", "!">>,
     <<"t", "o", "p", "1", "0">>,
     <<"i", "t", "'", "s">>,
     <<"g", "o", "n", "n", "a">>,
     <<"w", "w", "w", ".", "x", ".", "i", "o">>,
     <<"h", "t", "t", "p", ":", "/", "/", "x">>,
     <<"a", "@", "b", ".", "i", "o">>
    }

RECURSIVE JoinBlank(_)
JoinBlank(ps) ==
    IF ps = <<>> THEN <<>>
    ELSE IF Len(ps) = 1 THEN ps[1]
    ELSE ps[1] \o <<" ">> \o JoinBlank(Tail(ps))

\* The reviews: up to MaxWords pieces with a blank between them, and NaN.
Reviews ==
    {NaN} \cup {Str(JoinBlank(ps)) : ps \in SeqsUpTo(Pieces, MaxWords)}

\* df['review'].apply(clean_text), for one review.
Tokenize ==
    /\ kpc = "start"
    /\ tokens' = tokens_of(review, lemmatizer)
    /\ kpc' = "done"
    /\ UNCHANGED <<review, lemmatizer>>
    /\ UNCHANGED otherThanTokens

TokensNext ==
    \/ Tokenize

(***************************************************************************)
(* Properties of preprocess_text                                           *)
(***************************************************************************)

IsLowerWord(w) == \A i \in DOMAIN w : w[i] \in LowerLetters

Admissible(w) == IsLowerWord(w) /\ Len(w) >= 3 /\ w \notin stop_words

\* C13 as stated: every token consists of the letters a-z, is at least 3
\* long and is no stopword, whatever the lemmatizer.
C13_TokensAdmissible ==
    kpc = "done" => \A i \in DOMAIN tokens : Admissible(tokens[i])

\* The words of the lower-cased review: its runs of letters and their parts.
PartsOfReview ==
    IF review.isnull THEN {}
    ELSE LET s == Lower(review.val) IN
         {SubSeq(s, i, j) : i \in DOMAIN s, j \in DOMAIN s}

\* C13 amended: every token is the lemma of a word of the lower-cased review
\* that consists of the letters a-z, is at least 3 long and is no stopword;
\* the token itself is such a word when the lemmatizer returns words as they
\* are.
C13_TokensAreLemmasOfAdmissible ==
    kpc = "done" =>
        /\ \A i \in DOMAIN tokens :
              \E w \in PartsOfReview :
                  Admissible(w) /\ tokens[i] = lemmatize(lemmatizer, w)
        /\ lemmatizer = "identity" =>
              \A i \in DOMAIN tokens : Admissible(tokens[i])

C13_Witness ==
    /\ kpc = "done"
    /\ lemmatizer = "wordnet"
    /\ tokens = <<<<"b", "a", "n", "k">>, <<"c", "r", "a", "s", "h">>>>

(***************************************************************************)
(* Specifications                                                          *)
(***************************************************************************)

\* run_task2_analysis.main at its first statement, in every environment: the
\* input file present or not, and any set of modules that will raise.
Init ==
    /\ exists \in BOOLEAN
    /\ raises \in SUBSET Modules
    /\ pc = "check_prerequisites"
    /\ next_module = 1
    /\ running = "none"
    /\ started = <<>>
    /\ returned = {}
    /\ prerequisites = "unset"
    /\ results = EmptyDict
    /\ printed = {}
    /\ exit_status = -1
    /\ text = NaN
    /\ tpc = "idle"
    /\ cleaned = <<>>
    /\ recleaned = <<>>
    /\ raw = NoTable
    /\ df = NoTable
    /\ cpc = "idle"
    /\ duplicates_removed = 0
    /\ missing_report = EmptyReport
    /\ empty_removed = 0
    /\ is_valid = "unset"
    /\ saved = NoTable
    /\ app = "none"
    /\ all_reviews = <<>>
    /\ continuation_token = NoneToken
    /\ spc = "idle"
    /\ requests = <<>>
    /\ responses = <<>>
    /\ events = <<>>
    /\ files = [a \in DOMAIN APPS_CONFIG |-> EmptyFrame]
    /\ returned_df = EmptyFrame
    /\ scrape_error = FALSE
    /\ review = NaN
    /\ lemmatizer = "identity"
    /\ kpc = "idle"
    /\ tokens = <<>>

Next == OrchNext

Spec == Init /\ [][Next]_vars

\* clean_review_text about to be applied to any text of up to MaxLen characters.
InitText ==
    /\ exists = FALSE
    /\ raises = {}
    /\ pc = "idle"
    /\ next_module = 1
    /\ running = "none"
    /\ started = <<>>
    /\ returned = {}
    /\ prerequisites = "unset"
    /\ results = EmptyDict
    /\ printed = {}
    /\ exit_status = -1
    /\ text \in {NaN} \cup {Str(s) : s \in Texts}
    /\ tpc = "start"
    /\ cleaned = <<>>
    /\ recleaned = <<>>
    /\ raw = NoTable
    /\ df = NoTable
    /\ cpc = "idle"
    /\ duplicates_removed = 0
    /\ missing_report = EmptyReport
    /\ empty_removed = 0
    /\ is_valid = "unset"
    /\ saved = NoTable
    /\ app = "none"
    /\ all_reviews = <<>>
    /\ continuation_token = NoneToken
    /\ spc = "idle"
    /\ requests = <<>>
    /\ responses = <<>>
    /\ events = <<>>
    /\ files = [a \in DOMAIN APPS_CONFIG |-> EmptyFrame]
    /\ returned_df = EmptyFrame
    /\ scrape_error = FALSE
    /\ review = NaN
    /\ lemmatizer = "identity"
    /\ kpc = "idle"
    /\ tokens = <<>>

SpecText == InitText /\ [][TextNext]_vars

\* clean_reviews.main after load_data: df holds the raw file.
InitClean ==
    /\ exists = FALSE
    /\ raises = {}
    /\ pc = "idle"
    /\ next_module = 1
    /\ running = "none"
    /\ started = <<>>
    /\ returned = {}
    /\ prerequisites = "unset"
    /\ results = EmptyDict
    /\ printed = {}
    /\ exit_status = -1
    /\ text = NaN
    /\ tpc = "idle"
    /\ cleaned = <<>>
    /\ recleaned = <<>>
    /\ raw \in MainTables
    /\ df = raw
    /\ cpc = "remove_duplicates"
    /\ duplicates_removed = 0
    /\ missing_report = EmptyReport
    /\ empty_removed = 0
    /\ is_valid = "unset"
    /\ saved = NoTable
    /\ app = "none"
    /\ all_reviews = <<>>
    /\ continuation_token = NoneToken
    /\ spc = "idle"
    /\ requests = <<>>
    /\ responses = <<>>
    /\ events = <<>>
    /\ files = [a \in DOMAIN APPS_CONFIG |-> EmptyFrame]
    /\ returned_df = EmptyFrame
    /\ scrape_error = FALSE
    /\ review = NaN
    /\ lemmatizer = "identity"
    /\ kpc = "idle"
    /\ tokens = <<>>

SpecClean == InitClean /\ [][CleanNext]_vars

\* One of the steps about to be called on a table.
InitFn ==
    /\ exists = FALSE
    /\ raises = {}
    /\ pc = "idle"
    /\ next_module = 1
    /\ running = "none"
    /\ started = <<>>
    /\ returned = {}
    /\ prerequisites = "unset"
    /\ results = EmptyDict
    /\ printed = {}
    /\ exit_status = -1
    /\ text = NaN
    /\ tpc = "idle"
    /\ cleaned = <<>>
    /\ recleaned = <<>>
    /\ raw \in FnTables
    /\ df = NoTable
    /\ cpc = "call"
    /\ duplicates_removed = 0
    /\ missing_report = EmptyReport
    /\ empty_removed = 0
    /\ is_valid = "unset"
    /\ saved = NoTable
    /\ app = "none"
    /\ all_reviews = <<>>
    /\ continuation_token = NoneToken
    /\ spc = "idle"
    /\ requests = <<>>
    /\ responses = <<>>
    /\ events = <<>>
    /\ files = [a \in DOMAIN APPS_CONFIG |-> EmptyFrame]
    /\ returned_df = EmptyFrame
    /\ scrape_error = FALSE
    /\ review = NaN
    /\ lemmatizer = "identity"
    /\ kpc = "idle"
    /\ tokens = <<>>

SpecFn == InitFn /\ [][FnNext]_vars

\* scrape_app_reviews entered for one of the apps of APPS_CONFIG.
InitScrape ==
    /\ exists = FALSE
    /\ raises = {}
    /\ pc = "idle"
    /\ next_module = 1
    /\ running = "none"
    /\ started = <<>>
    /\ returned = {}
    /\ prerequisites = "unset"
    /\ results = EmptyDict
    /\ printed = {}
    /\ exit_status = -1
    /\ text = NaN
    /\ tpc = "idle"
    /\ cleaned = <<>>
    /\ recleaned = <<>>
    /\ raw = NoTable
    /\ df = NoTable
    /\ cpc = "idle"
    /\ duplicates_removed = 0
    /\ missing_report = EmptyReport
    /\ empty_removed = 0
    /\ is_valid = "unset"
    /\ saved = NoTable
    /\ app \in DOMAIN APPS_CONFIG
    /\ all_reviews = <<>>
    /\ continuation_token = NoneToken
    /\ spc = "loop"
    /\ requests = <<>>
    /\ responses = <<>>
    /\ events = <<>>
    /\ files = [a \in DOMAIN APPS_CONFIG |-> EmptyFrame]
    /\ returned_df = EmptyFrame
    /\ scrape_error = FALSE
    /\ review = NaN
    /\ lemmatizer = "identity"
    /\ kpc = "idle"
    /\ tokens = <<>>

SpecScrape == InitScrape /\ [][ScrapeNext]_vars

\* clean_text of preprocess_text about to be applied to a review.
InitTokens ==
    /\ exists = FALSE
    /\ raises = {}
    /\ pc = "idle"
    /\ next_module = 1
    /\ running = "none"
    /\ started = <<>>
    /\ returned = {}
    /\ prerequisites = "unset"
    /\ results = EmptyDict
    /\ printed = {}
    /\ exit_status = -1
    /\ text = NaN
    /\ tpc = "idle"
    /\ cleaned = <<>>
    /\ recleaned = <<>>
    /\ raw = NoTable
    /\ df = NoTable
    /\ cpc = "idle"
    /\ duplicates_removed = 0
    /\ missing_report = EmptyReport
    /\ empty_removed = 0
    /\ is_valid = "unset"
    /\ saved = NoTable
    /\ app = "none"
    /\ all_reviews = <<>>
    /\ continuation_token = NoneToken
    /\ spc = "idle"
    /\ requests = <<>>
    /\ responses = <<>>
    /\ events = <<>>
    /\ files = [a \in DOMAIN APPS_CONFIG |-> EmptyFrame]
    /\ returned_df = EmptyFrame
    /\ scrape_error = FALSE
    /\ review \in Reviews
    /\ lemmatizer \in Lemmatizers
    /\ kpc = "start"
    /\ tokens = <<>>

SpecTokens == InitTokens /\ [][TokensNext]_vars

====
